---- MODULE Spec2Model ----
(***************************************************************************)
(* Snipster: the snippet repository contract over its three storage        *)
(* backends (relational, in-memory, append-only JSON-lines file), the      *)
(* gist reconciliation and the search of the relational backend.           *)
(*                                                                         *)
(* The relational medium is the configured default, SQLite                 *)
(* (database_manager.py:32): integer primary keys are handed out as        *)
(* max(existing)+1 and foreign keys are not enforced, since the engine is  *)
(* created without enabling them (database_manager.py:38).                 *)
(***************************************************************************)
EXTENDS Integers, Sequences, FiniteSets, TLC

\* ------------------------------------------------------------------ bounds
MaxId == 3          \* ids 1..MaxId are handed out when the backends run side by side
MaxSnippet == 2     \* snippet ids 1..MaxSnippet where the gists are exercised
MaxGistId == 2      \* primary keys 1..MaxGistId are handed out to gist rows
MaxRemote == 2      \* remote gist identifiers known at one time
MaxTermLen == 2     \* characters of a search term
MaxTextLen == 2     \* characters of a searched column
MaxTagStr == 4      \* characters of a stored tag string that tags() is called on

\* ------------------------------------------------------------ input sets
Titles == {"loop", "sort"}
Languages == {"Python", "JavaScript"}
\* Where the gists are exercised, the snippet that gets id k is added under
\* the k-th of these titles (MaxSnippet is at most their number).
GistTitles == <<"loop", "sort", "swap", "heap">>
Ids == 1..MaxId
GistIds == 1..MaxSnippet

\* Answers of the remote service; "error" is a transport error
\* (httpx.HTTPError that is no HTTPStatusError), "none" means no request.
ProbeStatuses == {"200", "404", "error"}
PostStatuses == {"201", "error"}
DeleteStatuses == {"204", "404", "500", "error"}
LocalFailures == {"none", "OperationalError", "SQLAlchemyError"}
\* What the medium can answer a delete with beside these: a lookup by id that
\* yields more than one row (a table made without its primary key).
DeleteFailures == LocalFailures \cup {"MultipleResultsFound"}

\* Text is a sequence of characters; the letter comes in both cases.
Chars == {"a", "A", "%", "_", "\\"}
Terms == UNION {[1..k -> Chars] : k \in 0..MaxTermLen}
Texts == UNION {[1..k -> Chars] : k \in 0..MaxTextLen}
SearchLanguages == {"", "python", "JavaScript"}    \* "": no language given

\* The tags the callers hand over, as texts: two plain tags, the empty tag and
\* a tag that holds the separator.
TagTuples ==
    {<<>>, <<<<"a">>>>, <<<<"b">>>>, <<<<"a">>, <<"b">>>>, <<<<>>>>,
     <<<<"a", ",", " ", "b">>>>}

VARIABLES
    sqlSnippets,   \* relational table snippet: set of rows [id, title, language]
    sqlGists,      \* relational table gist: set of rows [id, snippet_id, gist_id]
    remote,        \* identifiers of the gists existing on the remote service
    memData,       \* in-memory backend: function id -> snippet object
    memNextId,     \* in-memory backend: _next_id
    memObj,        \* in-memory backend: key -> the object the key refers to
    jsonData,      \* file backend: insertion-ordered index, sequence of records
    jsonNextId,    \* file backend: _next_id
    jsonFile,      \* file backend: the lines of all_snippets.jsonl
    jsonGiven,     \* file backend: the ids it has given to added snippets so far
    inflight,      \* each caller's call in progress: its position, what it read
    last           \* the last repository call: its inputs and its outcome

vars == <<sqlSnippets, sqlGists, remote, memData, memNextId, memObj,
          jsonData, jsonNextId, jsonFile, jsonGiven, inflight, last>>

sqlVars == <<sqlSnippets, sqlGists, remote>>
memVars == <<memData, memNextId, memObj>>
jsonVars == <<jsonData, jsonNextId, jsonFile, jsonGiven>>

\* ----------------------------------------------------------------- helpers
Max(S) == CHOOSE x \in S : \A y \in S : y <= x

Range(f) == {f[x] : x \in DOMAIN f}

SeqRange(s) == {s[i] : i \in 1..Len(s)}

\* A Snippet as the caller constructs it: id is None (0) until a store sets it.
NewSnippet(t, l) == [id |-> 0, title |-> t, language |-> l]

SamePair(r, t, l) == r.title = t /\ r.language = l

\* The record of a repository call: its inputs that were used and its outcome
\* on each backend ("none": the backend, or the request, was not involved);
\* wrote / dropped: the call added / removed a row of the table it works on;
\* before: the tag string a tags call found stored; probes: the answer the
\* probe gave for each gist row of a listing, by the row's primary key.
Blank ==
    [op |-> "init", arg |-> 0, title |-> "", language |-> "", term |-> <<>>,
     sqlRes |-> "none", sqlRet |-> {},
     memRes |-> "none", memRet |-> {},
     jsonRes |-> "none", jsonRet |-> {},
     probe |-> "none", post |-> "none", resp |-> "none", localFail |-> "none",
     wrote |-> FALSE, dropped |-> FALSE,
     tags |-> <<>>, remove |-> FALSE, sort |-> FALSE, before |-> <<>>,
     probes |-> <<>>]

\* The callers whose calls can be in progress at the same time.
Callers == {1, 2}

\* A caller between two calls; during a call: pc is the step the call takes
\* next, arg the id it was called with, tags the tags it was called with,
\* favorite / value the flag / tag string it is about to write, seen what it
\* read of the column it writes, gid the remote gist it created.
Idle ==
    [pc |-> "idle", arg |-> 0, tags |-> <<>>, favorite |-> FALSE, value |-> <<>>,
     seenFavorite |-> FALSE, seenTags |-> <<>>, gid |-> 0]

\* ------------------------------------------------- relational medium
\* session.get(model, pk): the row whose primary key is pk, or none.
SqlSelectById(table, pk) == {r \in table : r.id = pk}

\* The integer primary key SQLite gives a row inserted with id None.
SqlNextId(table) == IF table = {} THEN 1 ELSE Max({r.id : r \in table}) + 1

\* UniqueConstraint("title", "language") of the snippet table.
SqlUniqueViolation(table, t, l) == \E r \in table : SamePair(r, t, l)

\* delete_record: select(model).where(model.id == pk), one(), delete.
SqlDeleteRecord(table, pk) == {r \in table : r.id # pk}

\* ------------------------------------------------ relational backend: CRUD
\* SQLModelRepository.add -> DatabaseManager.insert_record: the medium's
\* IntegrityError is re-raised by insert_record as DuplicateSnippetError.
SqlAdd(t, l) ==
    IF SqlUniqueViolation(sqlSnippets, t, l)
    THEN [res |-> "DuplicateSnippetError", table |-> sqlSnippets]
    ELSE [res |-> "ok",
          table |-> sqlSnippets \cup
                    {[id |-> SqlNextId(sqlSnippets), title |-> t, language |-> l]}]

\* SQLModelRepository.list -> select_all(Snippet).
SqlList == sqlSnippets

\* SQLModelRepository.get -> select_by_id(Snippet, id).
SqlGet(id) == SqlSelectById(sqlSnippets, id)

\* SQLModelRepository.delete -> delete_record(Snippet, id): NoResultFound is
\* re-raised by delete_record as SnippetNotFoundError; only the snippet row
\* is deleted (the Snippet model declares no relationship to cascade over).
SqlDelete(id) ==
    IF SqlSelectById(sqlSnippets, id) = {}
    THEN [res |-> "SnippetNotFoundError", table |-> sqlSnippets, gists |-> sqlGists]
    ELSE [res |-> "ok", table |-> SqlDeleteRecord(sqlSnippets, id), gists |-> sqlGists]

\* ---------------------------------------------- relational backend: search
\* A column holding NULL.
Null == <<"NULL">>

\* func.coalesce(column, "").
Coalesce(v) == IF v = Null THEN <<>> ELSE v

\* Case folding of ilike.
Lower(c) == IF c = "A" THEN "a" ELSE c

\* str.lower() of a language name.
LangLower(l) ==
    IF l = "Python" THEN "python"
    ELSE IF l = "JavaScript" THEN "javascript"
    ELSE IF l = "TypeScript" THEN "typescript"
    ELSE l

\* str.replace(old, new) for a one-character old.
RECURSIVE Replace(_, _, _)
Replace(str, old, new) ==
    IF str = <<>> THEN <<>>
    ELSE (IF Head(str) = old THEN new ELSE <<Head(str)>>)
         \o Replace(Tail(str), old, new)

\* The escaping without its last replacement: "_" stays a pattern character.
LikeEscapeNoUnderscore(term) ==
    Replace(Replace(term, "\\", <<"\\", "\\">>), "%", <<"\\", "%">>)

\* The escaping of select_with_filter: backslash first, then "%", then "_".
LikeEscape(term) ==
    Replace(Replace(Replace(term, "\\", <<"\\", "\\">>), "%", <<"\\", "%">>),
            "_", <<"\\", "_">>)

\* The pattern handed to ilike: f"%{escaped}%".
LikePattern(term) == <<"%">> \o LikeEscape(term) \o <<"%">>

\* text ILIKE pat ESCAPE '\': "%" matches any run of characters, "_" any one
\* character, the escape character makes the character after it literal (a
\* pattern ending in the escape character matches nothing), letters match
\* without regard to case.
RECURSIVE LikeMatch(_, _)
LikeMatch(pat, text) ==
    IF pat = <<>> THEN text = <<>>
    ELSE IF Head(pat) = "%"
    THEN LikeMatch(Tail(pat), text)
         \/ (text # <<>> /\ LikeMatch(pat, Tail(text)))
    ELSE IF Head(pat) = "_"
    THEN text # <<>> /\ LikeMatch(Tail(pat), Tail(text))
    ELSE IF Head(pat) = "\\"
    THEN /\ Len(pat) >= 2
         /\ text # <<>>
         /\ Lower(pat[2]) = Lower(Head(text))
         /\ LikeMatch(Tail(Tail(pat)), Tail(text))
    ELSE /\ text # <<>>
         /\ Lower(Head(pat)) = Lower(Head(text))
         /\ LikeMatch(Tail(pat), Tail(text))

\* DatabaseManager.select_with_filter(Snippet, col, term).
SelectWithFilter(table, col, term) ==
    {r \in table : LikeMatch(LikePattern(term), Coalesce(r[col]))}

SearchColumns == {"title", "code", "description"}

\* SQLModelRepository.search(term, language=language).
SqlSearch(term, language) ==
    LET all == UNION {SelectWithFilter(sqlSnippets, col, term) : col \in SearchColumns}
    IN IF all = {} THEN {}
       ELSE IF language # ""
       THEN {r \in all : LangLower(r.language) = LangLower(language)}
       ELSE all

\* ------------------------------------- relational backend: medium failures
\* The `except OperationalError` branch every DatabaseManager method has:
\* OperationalError leaves the manager as RepositoryError; what the manager
\* does not catch (or re-raises) leaves it as it is.
ManagerRaises(fail) == IF fail = "OperationalError" THEN "RepositoryError" ELSE fail

\* The handlers of SQLModelRepository.add, list, get and search around the
\* manager call: OperationalError -> DatabaseConnectionError, any other
\* SQLAlchemyError -> RepositoryError; the errors of the application pass.
RepositoryRaises(raised) ==
    IF raised = "OperationalError" THEN "DatabaseConnectionError"
    ELSE IF raised \in {"SQLAlchemyError", "MultipleResultsFound"} THEN "RepositoryError"
    ELSE raised

\* The handlers of delete without the MultipleResultsFound branch: the error
\* falls to the SQLAlchemyError branch.
DeleteRaisesWithoutConflict(raised) == RepositoryRaises(raised)

\* The handlers of SQLModelRepository.delete: those above and
\* MultipleResultsFound -> MultipleSnippetsFoundError.
DeleteRaises(raised) ==
    IF raised = "MultipleResultsFound" THEN "MultipleSnippetsFoundError"
    ELSE RepositoryRaises(raised)

\* insert_record(Snippet, snippet) for a snippet carrying every column.
SqlInsert(table, snippet) ==
    IF SqlUniqueViolation(table, snippet.title, snippet.language)
    THEN [res |-> "DuplicateSnippetError", table |-> table]
    ELSE [res |-> "ok", table |-> table \cup {[snippet EXCEPT !.id = SqlNextId(table)]}]

\* SQLModelRepository.add when the medium answers with `fail`.
SqlAddF(snippet, fail) ==
    IF fail # "none"
    THEN [res |-> RepositoryRaises(ManagerRaises(fail)), table |-> sqlSnippets]
    ELSE SqlInsert(sqlSnippets, snippet)

\* SQLModelRepository.list when the medium answers with `fail`.
SqlListF(fail) ==
    IF fail # "none"
    THEN [res |-> RepositoryRaises(ManagerRaises(fail)), ret |-> {}]
    ELSE [res |-> "ok", ret |-> SqlList]

\* SQLModelRepository.get when the medium answers with `fail`.
SqlGetF(id, fail) ==
    IF fail # "none"
    THEN [res |-> RepositoryRaises(ManagerRaises(fail)), ret |-> {}]
    ELSE [res |-> "ok", ret |-> SqlGet(id)]

\* SQLModelRepository.delete when the medium answers with `fail`: one()
\* raises before anything is deleted, a failed commit is rolled back.
SqlDeleteF(id, fail) ==
    IF fail # "none"
    THEN [res |-> DeleteRaises(ManagerRaises(fail)), table |-> sqlSnippets,
          gists |-> sqlGists]
    ELSE SqlDelete(id)

\* ------------------------------------------------------------- tag merge
\* TAG_SEPARATOR.
TagSeparator == <<",", " ">>

\* str.split(TAG_SEPARATOR): the text is cut at every separator, scanning
\* from the left; cur is the piece being read.
RECURSIVE SplitTags(_, _)
SplitTags(str, cur) ==
    IF str = <<>> THEN <<cur>>
    ELSE IF Len(str) >= 2 /\ SubSeq(str, 1, 2) = TagSeparator
    THEN <<cur>> \o SplitTags(SubSeq(str, 3, Len(str)), <<>>)
    ELSE SplitTags(Tail(str), Append(cur, Head(str)))

\* TAG_SEPARATOR.join(tags_list).
RECURSIVE JoinTags(_)
JoinTags(list) ==
    IF list = <<>> THEN <<>>
    ELSE IF Len(list) = 1 THEN list[1]
    ELSE list[1] \o TagSeparator \o JoinTags(Tail(list))

\* `tag in tags_list`.
InList(tag, list) == \E i \in 1..Len(list) : list[i] = tag

\* The loop `if tag not in tags_list: tags_list.append(tag)` over new_tags.
RECURSIVE AppendTags(_, _)
AppendTags(list, new) ==
    IF new = <<>> THEN list
    ELSE AppendTags(IF InList(Head(new), list) THEN list ELSE Append(list, Head(new)),
                    Tail(new))

\* list.remove(tag): the first occurrence leaves the list.
RemoveFirst(list, tag) ==
    LET i == CHOOSE k \in 1..Len(list) :
                 list[k] = tag /\ \A m \in 1..(k - 1) : list[m] # tag
    IN SubSeq(list, 1, i - 1) \o SubSeq(list, i + 1, Len(list))

\* The loop `if tag in tags_list: tags_list.remove(tag)` over new_tags.
RECURSIVE RemoveTags(_, _)
RemoveTags(list, new) ==
    IF new = <<>> THEN list
    ELSE RemoveTags(IF InList(Head(new), list) THEN RemoveFirst(list, Head(new))
                    ELSE list,
                    Tail(new))

\* The code points of the characters tags are made of.
CharCode(c) == IF c = " " THEN 32 ELSE IF c = "," THEN 44 ELSE IF c = "a" THEN 97 ELSE 98

\* The order of Python strings: by the first differing character, a proper
\* prefix first.
RECURSIVE StrLess(_, _)
StrLess(x, y) ==
    IF y = <<>> THEN FALSE
    ELSE IF x = <<>> THEN TRUE
    ELSE IF Head(x) # Head(y) THEN CharCode(Head(x)) < CharCode(Head(y))
    ELSE StrLess(Tail(x), Tail(y))

\* tags_list.sort(): least text first.
RECURSIVE SortTags(_)
SortTags(list) ==
    IF list = <<>> THEN <<>>
    ELSE LET i == CHOOSE k \in 1..Len(list) : \A m \in 1..Len(list) : ~StrLess(list[m], list[k])
         IN <<list[i]>> \o SortTags(SubSeq(list, 1, i - 1) \o SubSeq(list, i + 1, Len(list)))

\* `existing_tags.split(", ") if existing_tags else []`: None and the empty
\* string are the empty list.
ParseTags(existing) ==
    IF existing = Null \/ existing = <<>> THEN <<>> ELSE SplitTags(existing, <<>>)

\* SnippetRepository.process_tags(existing_tags, new_tags, remove, sort).
ProcessTags(existing, new, remove, sort) ==
    LET list == ParseTags(existing)
        merged == IF ~remove THEN AppendTags(list, new) ELSE RemoveTags(list, new)
    IN JoinTags(IF sort THEN SortTags(merged) ELSE merged)

\* search when the medium answers with `fail` to a select_with_filter.
SqlSearchF(term, language, fail) ==
    IF fail # "none"
    THEN [res |-> RepositoryRaises(ManagerRaises(fail)), ret |-> {}]
    ELSE [res |-> "ok", ret |-> SqlSearch(term, language)]

\* ------------------------------------------------- in-memory backend: CRUD
\* An add that takes the key after the greatest stored key instead of
\* keeping its own counter.
MemAddAfterGreatestKey(t, l) ==
    LET key == IF DOMAIN memData = {} THEN 1 ELSE Max(DOMAIN memData) + 1
    IN [res |-> "ok", data |-> memData @@ (key :> NewSnippet(t, l)),
        obj |-> memObj @@ (key :> key), next |-> key + 1]

\* self._data[self._next_id] = snippet for the object o, whose attributes
\* are `snippet`: the dictionary refers to the object, it holds no copy.
MemStore(o, snippet) ==
    [res |-> "ok", data |-> memData @@ (memNextId :> snippet),
     obj |-> memObj @@ (memNextId :> o), next |-> memNextId + 1]

\* InMemorySnippetRepository.add of a newly constructed snippet: stores the
\* object under _next_id; the object's own id attribute is not assigned and
\* nothing is compared.  The new object is named by the key it gets.
MemAdd(t, l) == MemStore(memNextId, NewSnippet(t, l))

MemList == Range(memData)

MemGet(id) == IF id \in DOMAIN memData THEN {memData[id]} ELSE {}

MemDelete(id) ==
    IF id \notin DOMAIN memData
    THEN [res |-> "KeyError", data |-> memData, obj |-> memObj]
    ELSE [res |-> "ok", data |-> [k \in DOMAIN memData \ {id} |-> memData[k]],
          obj |-> [k \in DOMAIN memData \ {id} |-> memObj[k]]]

\* ------------------------------------ relational backend: favourite, tags
\* DatabaseManager.update(model, pk, col, value): the row where id == pk gets
\* the value; NoResultFound is re-raised as SnippetNotFoundError.
SqlUpdate(table, pk, col, value) ==
    IF SqlSelectById(table, pk) = {}
    THEN [res |-> "SnippetNotFoundError", table |-> table]
    ELSE [res |-> "ok",
          table |-> {IF r.id = pk THEN [r EXCEPT ![col] = value] ELSE r : r \in table}]

\* SQLModelRepository.toggle_favourite: returns the new value of the flag.
SqlToggleFavourite(id) ==
    IF SqlGet(id) = {}
    THEN [res |-> "SnippetNotFoundError", ret |-> {}, table |-> sqlSnippets]
    ELSE LET value == ~(CHOOSE r \in SqlGet(id) : TRUE).favorite
         IN [res |-> SqlUpdate(sqlSnippets, id, "favorite", value).res,
             ret |-> {value},
             table |-> SqlUpdate(sqlSnippets, id, "favorite", value).table]

\* SQLModelRepository.tags.
SqlTags(id, new, remove, sort) ==
    IF SqlGet(id) = {}
    THEN [res |-> "SnippetNotFoundError", table |-> sqlSnippets]
    ELSE LET value == ProcessTags((CHOOSE r \in SqlGet(id) : TRUE).tags,
                                  new, remove, sort)
         IN SqlUpdate(sqlSnippets, id, "tags", value)

\* toggle_favourite when the medium answers with `fail` at the step `at`:
\* the get has the handlers of the repository, the update has none.
SqlToggleFavouriteF(id, fail, at) ==
    IF fail # "none" /\ at = "get"
    THEN [res |-> RepositoryRaises(ManagerRaises(fail)), ret |-> {},
          table |-> sqlSnippets]
    ELSE IF fail # "none" /\ SqlGet(id) # {}
    THEN [res |-> ManagerRaises(fail), ret |-> {}, table |-> sqlSnippets]
    ELSE SqlToggleFavourite(id)

\* tags when the medium answers with `fail` at the step `at`.
SqlTagsF(id, new, remove, sort, fail, at) ==
    IF fail # "none" /\ at = "get"
    THEN [res |-> RepositoryRaises(ManagerRaises(fail)), table |-> sqlSnippets]
    ELSE IF fail # "none" /\ SqlGet(id) # {}
    THEN [res |-> ManagerRaises(fail), table |-> sqlSnippets]
    ELSE SqlTags(id, new, remove, sort)

\* ------------------------------------- in-memory backend: favourite, tags
\* An assignment to an attribute of the object stored under id: every key
\* that refers to the same object shows the new value.
MemSetAttr(id, attr, value) ==
    [k \in DOMAIN memData |->
        IF memObj[k] = memObj[id] THEN [memData[k] EXCEPT ![attr] = value]
        ELSE memData[k]]

\* InMemorySnippetRepository.toggle_favourite: flips the flag of the stored
\* object and returns None; an absent id raises KeyError.
MemToggleFavourite(id) ==
    IF MemGet(id) = {}
    THEN [res |-> "KeyError", ret |-> {}, data |-> memData]
    ELSE [res |-> "ok", ret |-> {},
          data |-> MemSetAttr(id, "favorite", ~memData[id].favorite)]

\* InMemorySnippetRepository.tags.
MemTags(id, new, remove, sort) ==
    IF MemGet(id) = {}
    THEN [res |-> "KeyError", data |-> memData]
    ELSE [res |-> "ok",
          data |-> MemSetAttr(id, "tags",
                              ProcessTags(memData[id].tags, new, remove, sort))]

\* ---------------------------------------------- in-memory backend: search
\* str.lower() of a text.
StrLower(text) == [i \in 1..Len(text) |-> Lower(text[i])]

\* Python's `sub in text` on strings.
StrIn(sub, text) ==
    \E i \in 0..(Len(text) - Len(sub)) :
        \A j \in 1..Len(sub) : text[i + j] = sub[j]

\* The test `term_lc in snippet.<col>.lower()` of the in-memory search.
MemMatches(term, snippet) ==
    \/ StrIn(StrLower(term), StrLower(snippet.title))
    \/ /\ snippet.description # Null
       /\ snippet.description # <<>>
       /\ StrIn(StrLower(term), StrLower(snippet.description))
    \/ StrIn(StrLower(term), StrLower(snippet.code))

\* InMemorySnippetRepository.search(term, language): the language filter
\* first (an empty language is no filter), then the three columns; no match
\* raises ValueError.
MemSearch(term, language) ==
    LET snippets == IF language # ""
                    THEN {k \in DOMAIN memData :
                             LangLower(memData[k].language) = LangLower(language)}
                    ELSE DOMAIN memData
        matches == {k \in snippets : MemMatches(term, memData[k])}
    IN IF matches = {}
       THEN [res |-> "ValueError", ret |-> {}]
       ELSE [res |-> "ok", ret |-> {memData[k] : k \in matches}]

\* ------------------------------------------------------ file backend: CRUD
JsonHas(id) == \E i \in 1..Len(jsonData) : jsonData[i].id = id

\* The (title, language) scan of JSONSnippetRepository.add.
JsonDuplicate(t, l) == \E i \in 1..Len(jsonData) : SamePair(jsonData[i], t, l)

\* JSONSnippetRepository.add: a duplicate is logged and add returns None;
\* otherwise the snippet gets _next_id, enters the index and is appended.
JsonAdd(t, l) ==
    IF JsonDuplicate(t, l)
    THEN [res |-> "ok", data |-> jsonData, next |-> jsonNextId, file |-> jsonFile,
          given |-> {}]
    ELSE LET rec == [id |-> jsonNextId, title |-> t, language |-> l]
         IN [res |-> "ok", data |-> Append(jsonData, rec),
             next |-> jsonNextId + 1, file |-> Append(jsonFile, rec),
             given |-> {jsonNextId}]

JsonList == SeqRange(jsonData)

JsonGet(id) == {r \in SeqRange(jsonData) : r.id = id}

\* A delete that drops the record from the index and leaves the file.
JsonDeleteIndexOnly(id) ==
    IF ~JsonHas(id)
    THEN [res |-> "ok", data |-> jsonData, file |-> jsonFile]
    ELSE LET Keep(r) == r.id # id
         IN [res |-> "ok", data |-> SelectSeq(jsonData, Keep), file |-> jsonFile]

\* JSONSnippetRepository.delete: an unknown id is logged only; otherwise the
\* record leaves the index and the whole file is rewritten from the index.
JsonDelete(id) ==
    IF ~JsonHas(id)
    THEN [res |-> "ok", data |-> jsonData, file |-> jsonFile]
    ELSE LET Keep(r) == r.id # id
             rest == SelectSeq(jsonData, Keep)
         IN [res |-> "ok", data |-> rest, file |-> rest]

\* snippet_dict[record.get("id")] = Snippet(**record) for one line: a line
\* whose id the index holds replaces the snippet there, any other is put
\* after the last.
JsonPut(index, record) ==
    IF \E i \in 1..Len(index) : index[i].id = record.id
    THEN [i \in 1..Len(index) |->
             IF index[i].id = record.id THEN record ELSE index[i]]
    ELSE Append(index, record)

\* _load_existing_snippets_to_memory: the lines of the file, first to last.
RECURSIVE JsonLoadInto(_, _)
JsonLoadInto(index, lines) ==
    IF lines = <<>> THEN index
    ELSE JsonLoadInto(JsonPut(index, Head(lines)), Tail(lines))

JsonLoad(file) == JsonLoadInto(<<>>, file)

\* JSONSnippetRepository.__init__ on an existing file: the index is loaded
\* and _next_id is one more than the greatest id in it.
JsonOpen(file) ==
    LET index == JsonLoad(file)
    IN [data |-> index,
        next |-> IF index = <<>> THEN 1
                 ELSE Max({index[i].id : i \in 1..Len(index)}) + 1]

\* ------------------------------------------------------- the remote service
RemoteExists(gid) == gid \in remote

\* The identifier the service gives the next gist: one that names no existing
\* gist and that no local row still refers to (the service never reuses one).
FreshRemoteIds ==
    (1..MaxRemote) \ (remote \cup {g.gist_id : g \in sqlGists})

NewRemoteId == CHOOSE n \in FreshRemoteIds : \A m \in FreshRemoteIds : n <= m

\* What GET /gists/{gid} can answer in the current state of the service.
ProbeAnswers(gid) ==
    IF RemoteExists(gid) THEN {"200", "error"} ELSE {"404", "error"}

\* What DELETE /gists/{gid} can answer in the current state of the service.
DeleteAnswers(gid) ==
    IF RemoteExists(gid) THEN {"204", "500", "error"} ELSE {"404", "500", "error"}

\* The gist row a call for snippet_id s looks at: select_by_id(Gist, s) is
\* session.get(Gist, s), the row whose primary key equals s.
GistRowAt(s) == SqlSelectById(sqlGists, s)

GistIdAt(s) == (CHOOSE r \in GistRowAt(s) : TRUE).gist_id

\* The gist rows owned by snippet s (column snippet_id).
GistsOf(table, s) == {r \in table : r.snippet_id = s}

\* ------------------------------------------- relational backend: gists
\* verify_gist_exists: True on status 200; False on any other status and on
\* httpx.HTTPError.
VerifyGistExists(answer) == answer = "200"

\* SQLModelRepository.get_gist.
GetGist(s, answer) ==
    IF SqlGet(s) = {}
    THEN [ret |-> {}, gists |-> sqlGists, probe |-> "none"]
    ELSE IF GistRowAt(s) = {}
    THEN [ret |-> {}, gists |-> sqlGists, probe |-> "none"]
    ELSE IF ~VerifyGistExists(answer)
    THEN [ret |-> {}, gists |-> SqlDeleteRecord(sqlGists, s), probe |-> answer]
    ELSE [ret |-> GistRowAt(s), gists |-> sqlGists, probe |-> answer]

\* httpx.post + raise_for_status: a 4xx/5xx status and a transport error are
\* both httpx.HTTPError.
PostFails(post) == post # "201"

\* The gist table (the Gist model): a row has its own integer primary key id,
\* given by the medium, beside the unique snippet_id of its owner, and a
\* reconciliation status (GistStatus), active when the row is made.
NewGist(table, s, gid) ==
    [id |-> SqlNextId(table), snippet_id |-> s, gist_id |-> gid, status |-> "active"]

GistUniqueViolation(table, s) == GistsOf(table, s) # {}

\* SQLModelRepository.add_gist -> insert_record(Gist, gist) on table `table`:
\* the unique snippet_id makes the medium raise IntegrityError, which
\* insert_record re-raises as DuplicateSnippetError, and OperationalError,
\* which it re-raises as RepositoryError; any other SQLAlchemyError passes.
AddGist(table, s, gid, fail) ==
    IF fail = "OperationalError"
    THEN [res |-> "RepositoryError", gists |-> table]
    ELSE IF fail = "SQLAlchemyError"
    THEN [res |-> "SQLAlchemyError", gists |-> table]
    ELSE IF GistUniqueViolation(table, s)
    THEN [res |-> "DuplicateSnippetError", gists |-> table]
    ELSE [res |-> "ok", gists |-> table \cup {NewGist(table, s, gid)}]

\* create_gist with the two writes in the other order: the local record is
\* stored first and stays when the remote create then fails.
CreateGistPersistFirst(s, answer, post, fail) ==
    LET g == GetGist(s, answer)
        gid == NewRemoteId
    IN IF g.ret # {}
       THEN [res |-> "DuplicateGistError", gists |-> g.gists, probe |-> g.probe,
             post |-> "none", remote |-> remote, fail |-> "none"]
       ELSE IF PostFails(post)
       THEN [res |-> "RepositoryError",
             gists |-> AddGist(g.gists, s, gid, "none").gists, probe |-> g.probe,
             post |-> post, remote |-> remote, fail |-> "none"]
       ELSE [res |-> AddGist(g.gists, s, gid, fail).res,
             gists |-> AddGist(g.gists, s, gid, fail).gists, probe |-> g.probe,
             post |-> post, remote |-> remote \cup {gid}, fail |-> fail]

\* SQLModelRepository.create_gist.
CreateGist(s, answer, post, fail) ==
    LET g == GetGist(s, answer)
        gid == NewRemoteId
    IN IF g.ret # {}
       THEN [res |-> "DuplicateGistError", gists |-> g.gists, probe |-> g.probe,
             post |-> "none", remote |-> remote, fail |-> "none"]
       ELSE IF PostFails(post)
       THEN [res |-> "RepositoryError", gists |-> g.gists, probe |-> g.probe,
             post |-> post, remote |-> remote, fail |-> "none"]
       ELSE [res |-> AddGist(g.gists, s, gid, fail).res,
             gists |-> AddGist(g.gists, s, gid, fail).gists, probe |-> g.probe,
             post |-> post, remote |-> remote \cup {gid}, fail |-> fail]

\* The status a listing gives a gist row whose probe answered `answer`:
\* verify_gist_exists answers a failed probe with False, as it answers a
\* gist that is gone, so the listing has no failure to catch.
ReconciledStatus(row, answer) ==
    IF VerifyGistExists(answer) THEN "active" ELSE "deleted_on_github"

\* list_gist(): every local gist row is reconciled on its own and returned;
\* answers gives the probe's answer for each row.
ListGist(answers) ==
    LET rows == {[r EXCEPT !.status = ReconciledStatus(r, answers[r.id])] : r \in sqlGists}
    IN [res |-> "ok", ret |-> rows, gists |-> rows]

\* delete_gist tolerating every error status, not 404 alone: only a transport
\* error aborts the call.
DeleteGistRemoteAbortsOnTransportOnly(resp) == resp = "error"

\* delete_gist: which answers of the remote delete abort the call
\* (HTTPStatusError other than 404, or any other httpx.HTTPError).
DeleteGistRemoteAborts(resp) == resp \notin {"204", "404"}

\* The error kind delete_gist raises when the remote delete aborts it.
DeleteGistRemoteError(resp) == "RepositoryError"

\* The error kind delete_gist raises when delete_record(Gist, s) fails:
\* MultipleResultsFound is re-raised by delete_gist as
\* MultipleSnippetsFoundError, OperationalError by delete_record as
\* RepositoryError, any other SQLAlchemyError by delete_gist as
\* RepositoryError.
DeleteGistLocalError(fail) ==
    IF fail = "MultipleResultsFound" THEN "MultipleSnippetsFoundError"
    ELSE IF fail = "OperationalError" THEN "RepositoryError"
    ELSE "RepositoryError"

\* SQLModelRepository.delete_gist.
DeleteGist(s, resp, fail) ==
    IF GistRowAt(s) = {}
    THEN [res |-> "GistNotFoundError", gists |-> sqlGists, remote |-> remote,
          resp |-> "none", fail |-> "none"]
    ELSE LET after == IF resp = "204"
                      THEN remote \ {GistIdAt(s)}
                      ELSE remote
         IN IF DeleteGistRemoteAborts(resp)
            THEN [res |-> DeleteGistRemoteError(resp), gists |-> sqlGists,
                  remote |-> remote, resp |-> resp, fail |-> "none"]
            ELSE IF fail # "none"
            THEN [res |-> DeleteGistLocalError(fail), gists |-> sqlGists,
                  remote |-> after, resp |-> resp, fail |-> fail]
            ELSE [res |-> "ok", gists |-> SqlDeleteRecord(sqlGists, s),
                  remote |-> after, resp |-> resp, fail |-> "none"]

\* ------------------------------------------- the three backends side by side
Init ==
    /\ sqlSnippets = {}
    /\ sqlGists = {}
    /\ remote = {}
    /\ memData = <<>>
    /\ memNextId = 1
    /\ memObj = <<>>
    /\ jsonData = <<>>
    /\ jsonNextId = 1
    /\ jsonFile = <<>>
    /\ jsonGiven = {}
    /\ inflight = [c \in Callers |-> Idle]
    /\ last = Blank

\* add(Snippet(title=t, language=l)) on each backend.
Add(t, l) ==
    /\ memNextId <= MaxId
    /\ jsonNextId <= MaxId
    /\ SqlNextId(sqlSnippets) <= MaxId
    /\ sqlSnippets' = SqlAdd(t, l).table
    /\ memData' = MemAdd(t, l).data
    /\ memNextId' = MemAdd(t, l).next
    /\ memObj' = MemAdd(t, l).obj
    /\ jsonData' = JsonAdd(t, l).data
    /\ jsonNextId' = JsonAdd(t, l).next
    /\ jsonFile' = JsonAdd(t, l).file
    /\ jsonGiven' = jsonGiven \cup JsonAdd(t, l).given
    /\ last' = [Blank EXCEPT !.op = "add", !.title = t, !.language = l,
                   !.sqlRes = SqlAdd(t, l).res,
                   !.memRes = MemAdd(t, l).res,
                   !.jsonRes = JsonAdd(t, l).res]
    /\ UNCHANGED <<sqlGists, remote, inflight>>

\* list() on each backend.
List ==
    /\ last' = [Blank EXCEPT !.op = "list",
                   !.sqlRes = "ok", !.sqlRet = SqlList,
                   !.memRes = "ok", !.memRet = MemList,
                   !.jsonRes = "ok", !.jsonRet = JsonList]
    /\ UNCHANGED <<sqlVars, memVars, jsonVars, inflight>>

\* get(id) on each backend.
Get(id) ==
    /\ last' = [Blank EXCEPT !.op = "get", !.arg = id,
                   !.sqlRes = "ok", !.sqlRet = SqlGet(id),
                   !.memRes = "ok", !.memRet = MemGet(id),
                   !.jsonRes = "ok", !.jsonRet = JsonGet(id)]
    /\ UNCHANGED <<sqlVars, memVars, jsonVars, inflight>>

\* delete(id) on each backend.
Delete(id) ==
    /\ sqlSnippets' = SqlDelete(id).table
    /\ sqlGists' = SqlDelete(id).gists
    /\ memData' = MemDelete(id).data
    /\ memObj' = MemDelete(id).obj
    /\ jsonData' = JsonDelete(id).data
    /\ jsonFile' = JsonDelete(id).file
    /\ last' = [Blank EXCEPT !.op = "delete", !.arg = id,
                   !.sqlRes = SqlDelete(id).res,
                   !.memRes = MemDelete(id).res,
                   !.jsonRes = JsonDelete(id).res]
    /\ UNCHANGED <<remote, memNextId, jsonNextId, jsonGiven, inflight>>

\* The file backend is constructed anew on the file it left behind.
Reopen ==
    /\ jsonData' = JsonOpen(jsonFile).data
    /\ jsonNextId' = JsonOpen(jsonFile).next
    /\ last' = [Blank EXCEPT !.op = "reopen"]
    /\ UNCHANGED <<sqlVars, memVars, jsonFile, jsonGiven, inflight>>

\* Snippet s owns a gist row; the remote resource of that row is gone.
HadGist(s) == GistsOf(sqlGists, s) # {}

GistGone(s) == \E r \in GistsOf(sqlGists, s) : ~RemoteExists(r.gist_id)

\* The verification answers a call for snippet_id s can meet.
ProbeChoices(s) ==
    IF SqlGet(s) = {} \/ GistRowAt(s) = {}
    THEN {"none"}
    ELSE ProbeAnswers(GistIdAt(s))

DeleteChoices(s) ==
    IF GistRowAt(s) = {} THEN {"none"} ELSE DeleteAnswers(GistIdAt(s))

\* The answers the remote create can give, when the call gets that far.
PostChoices(s, answer) ==
    IF GetGist(s, answer).ret # {} THEN {"none"} ELSE PostStatuses

\* The local failures a call can meet, when it gets to its local write.
CreateFailChoices(post) == IF PostFails(post) THEN {"none"} ELSE LocalFailures

DeleteFailChoices(resp) ==
    IF resp = "none" \/ DeleteGistRemoteAborts(resp) THEN {"none"} ELSE DeleteFailures

\* create_gist(s, ...) on the relational backend.
DoCreateGist(s, answer, post, fail) ==
    LET out == CreateGist(s, answer, post, fail)
    IN /\ FreshRemoteIds # {}
       /\ SqlNextId(sqlGists) <= MaxGistId
       /\ sqlGists' = out.gists
       /\ remote' = out.remote
       /\ last' = [Blank EXCEPT !.op = "create_gist", !.arg = s,
                      !.sqlRes = out.res, !.probe = out.probe, !.post = out.post,
                      !.localFail = out.fail,
                      !.wrote = (out.gists \ sqlGists # {}),
                      !.dropped = (sqlGists \ out.gists # {})]
       /\ UNCHANGED <<sqlSnippets, memVars, jsonVars, inflight>>

\* get_gist(s) on the relational backend.
DoGetGist(s, answer) ==
    LET out == GetGist(s, answer)
    IN /\ sqlGists' = out.gists
       /\ last' = [Blank EXCEPT !.op = "get_gist", !.arg = s,
                      !.sqlRes = "ok", !.sqlRet = out.ret, !.probe = out.probe,
                      !.wrote = (out.gists \ sqlGists # {}),
                      !.dropped = (sqlGists \ out.gists # {})]
       /\ UNCHANGED <<sqlSnippets, remote, memVars, jsonVars, inflight>>

\* delete_gist(s) on the relational backend.
DoDeleteGist(s, resp, fail) ==
    LET out == DeleteGist(s, resp, fail)
    IN /\ sqlGists' = out.gists
       /\ remote' = out.remote
       /\ last' = [Blank EXCEPT !.op = "delete_gist", !.arg = s,
                      !.sqlRes = out.res, !.resp = out.resp,
                      !.localFail = out.fail,
                      !.wrote = (out.gists \ sqlGists # {}),
                      !.dropped = (sqlGists \ out.gists # {})]
       /\ UNCHANGED <<sqlSnippets, memVars, jsonVars, inflight>>

\* A gist that a local record refers to is deleted on the remote service by
\* someone else.  (A remote gist without a local record is never looked at
\* again by the repository: what becomes of it is left out.)
RemoteGone(r) ==
    /\ \E g \in sqlGists : g.gist_id = r
    /\ remote' = remote \ {r}
    /\ UNCHANGED <<sqlSnippets, sqlGists, memVars, jsonVars, inflight, last>>

\* add(Snippet(title=t, language=l)) on the relational backend alone.
AddSql(t, l) ==
    /\ SqlNextId(sqlSnippets) <= MaxSnippet
    /\ SqlNextId(sqlSnippets) <= Len(GistTitles)
    /\ sqlSnippets' = SqlAdd(t, l).table
    /\ last' = [Blank EXCEPT !.op = "add", !.title = t, !.language = l,
                   !.sqlRes = SqlAdd(t, l).res]
    /\ UNCHANGED <<sqlGists, remote, memVars, jsonVars, inflight>>

\* The answers of the medium delete(id) can meet: more than one row only
\* where the lookup finds the id.
SqlDeleteFailChoices(id) ==
    IF SqlGet(id) = {} THEN LocalFailures ELSE DeleteFailures

\* delete(id) on the relational backend alone, the medium answering `fail`.
DeleteSql(id, fail) ==
    /\ sqlSnippets' = SqlDeleteF(id, fail).table
    /\ sqlGists' = SqlDeleteF(id, fail).gists
    /\ last' = [Blank EXCEPT !.op = "delete", !.arg = id, !.localFail = fail,
                   !.sqlRes = SqlDeleteF(id, fail).res,
                   !.dropped = (sqlSnippets \ SqlDeleteF(id, fail).table # {})]
    /\ UNCHANGED <<remote, memVars, jsonVars, inflight>>

\* The three backends run side by side on the same calls.
Next ==
    \/ \E t \in Titles, l \in Languages : Add(t, l)
    \/ List
    \/ \E id \in Ids : Get(id)
    \/ \E id \in Ids : Delete(id)
    \/ Reopen

Spec == Init /\ [][Next]_vars

\* One call of each gist operation for snippet_id s, over every answer of
\* the remote service and every local failure the call can meet.
CreateGistStep(s) ==
    \E answer \in ProbeChoices(s) :
        \E post \in PostChoices(s, answer) :
            \E fail \in CreateFailChoices(post) : DoCreateGist(s, answer, post, fail)

GetGistStep(s) == \E answer \in ProbeChoices(s) : DoGetGist(s, answer)

DeleteGistStep(s) ==
    \E resp \in DeleteChoices(s) :
        \E fail \in DeleteFailChoices(resp) : DoDeleteGist(s, resp, fail)

\* The relational backend with its gists and the remote service.
NextGist ==
    \/ AddSql(GistTitles[SqlNextId(sqlSnippets)], "Python")
    \/ \E id \in GistIds : \E fail \in SqlDeleteFailChoices(id) : DeleteSql(id, fail)
    \/ \E s \in GistIds : CreateGistStep(s)
    \/ \E s \in GistIds : GetGistStep(s)
    \/ \E s \in GistIds : DeleteGistStep(s)
    \/ \E r \in remote : RemoteGone(r)

SpecGist == Init /\ [][NextGist]_vars

\* The answers the probes of one listing can give: one for each gist row.
ListProbeChoices ==
    {f \in [{r.id : r \in sqlGists} -> ProbeStatuses] :
        \A r \in sqlGists : f[r.id] \in ProbeAnswers(r.gist_id)}

\* list_gist() on the relational backend.
DoListGist(answers) ==
    /\ sqlGists' = ListGist(answers).gists
    /\ last' = [Blank EXCEPT !.op = "list_gist", !.probes = answers,
                   !.sqlRes = ListGist(answers).res,
                   !.sqlRet = ListGist(answers).ret]
    /\ UNCHANGED <<sqlSnippets, remote, memVars, jsonVars, inflight>>

ListGistStep == \E answers \in ListProbeChoices : DoListGist(answers)

\* add_gist(s, gist_url, is_public) on the relational backend, the url
\* ending in the remote identifier gid, the medium answering `fail`.
DoAddGist(s, gid, fail) ==
    LET out == AddGist(sqlGists, s, gid, fail)
    IN /\ SqlNextId(sqlGists) <= MaxGistId
       /\ sqlGists' = out.gists
       /\ last' = [Blank EXCEPT !.op = "add_gist", !.arg = s,
                      !.sqlRes = out.res, !.localFail = fail,
                      !.wrote = (out.gists \ sqlGists # {}),
                      !.dropped = (sqlGists \ out.gists # {})]
       /\ UNCHANGED <<sqlSnippets, remote, memVars, jsonVars, inflight>>

\* The relational backend with the creation and the listing of gists.
NextList ==
    \/ AddSql(GistTitles[SqlNextId(sqlSnippets)], "Python")
    \/ \E s \in GistIds : CreateGistStep(s)
    \/ \E s \in GistIds, gid \in 1..MaxRemote, fail \in LocalFailures :
           DoAddGist(s, gid, fail)
    \/ \E r \in remote : RemoteGone(r)
    \/ ListGistStep

SpecList == Init /\ [][NextList]_vars

\* A title of letters, of the least length validate_title admits.
TitleStem == <<"a", "A", "a">>

\* The snippet table the searches run on: one snippet carrying `text` in
\* column col (after the stem, in a title), and one whose columns hold
\* letters only.
Corpus(col, text, l) ==
    {[id |-> 1, language |-> l,
      title |-> IF col = "title" THEN TitleStem \o text ELSE TitleStem,
      code |-> IF col = "code" THEN text ELSE <<"a">>,
      description |-> IF col = "description" THEN text ELSE Null],
     [id |-> 2, language |-> "TypeScript",
      title |-> TitleStem, code |-> <<"A", "a">>, description |-> Null]}

\* The same snippets as the in-memory backend holds them after two adds:
\* under the keys 1 and 2, the objects' own id never set.
MemCorpus(table) ==
    [k \in 1..Cardinality(table) |->
        [(CHOOSE r \in table : r.id = k) EXCEPT !.id = 0]]

InitSearch ==
    /\ \E col \in SearchColumns, text \in Texts, l \in Languages :
           /\ sqlSnippets = Corpus(col, text, l)
           /\ memData = MemCorpus(Corpus(col, text, l))
    /\ sqlGists = {}
    /\ remote = {}
    /\ memNextId = 3
    /\ memObj = [k \in 1..2 |-> k]
    /\ jsonData = <<>>
    /\ jsonNextId = 1
    /\ jsonFile = <<>>
    /\ jsonGiven = {}
    /\ inflight = [c \in Callers |-> Idle]
    /\ last = Blank

\* search(term, language=language) on the relational and the in-memory
\* backend.  A search changes nothing it reads, so its outcome is the same
\* after any number of earlier searches: each table is searched from its
\* initial state.
Search(term, language) ==
    /\ last.op = "init"
    /\ last' = [Blank EXCEPT !.op = "search", !.term = term, !.language = language,
                   !.sqlRes = "ok", !.sqlRet = SqlSearch(term, language),
                   !.memRes = MemSearch(term, language).res,
                   !.memRet = MemSearch(term, language).ret]
    /\ UNCHANGED <<sqlVars, memVars, jsonVars, inflight>>

NextSearch == \E term \in Terms, language \in SearchLanguages : Search(term, language)

SpecSearch == InitSearch /\ [][NextSearch]_vars

\* The snippet every backend holds under id 1 before the edits, stored with
\* the tag string `tags` (the in-memory backend never sets the object's id).
Stored(id, tags) ==
    [id |-> id, title |-> "loop", language |-> "Python", tags |-> tags,
     favorite |-> FALSE]

\* The tag strings a snippet is added with: none, empty, one tag, two tags
\* out of order.
PriorTags == {Null, <<>>, <<"b">>, <<"b", ",", " ", "a">>}

InitEdit ==
    /\ \E tags \in PriorTags :
           /\ sqlSnippets = {Stored(1, tags)}
           /\ memData = (1 :> Stored(0, tags))
           /\ jsonData = <<Stored(1, tags)>>
           /\ jsonFile = <<Stored(1, tags)>>
    /\ sqlGists = {}
    /\ remote = {}
    /\ memNextId = 2
    /\ memObj = (1 :> 1)
    /\ jsonNextId = 2
    /\ jsonGiven = {1}
    /\ inflight = [c \in Callers |-> Idle]
    /\ last = Blank

\* tags(id, *new, remove=remove, sort=sort) on the relational and the
\* in-memory backend (the file backend does not implement it).
Tags(id, new, remove, sort) ==
    /\ \A r \in sqlSnippets : Len(Coalesce(r.tags)) <= MaxTagStr
    /\ sqlSnippets' = SqlTags(id, new, remove, sort).table
    /\ memData' = MemTags(id, new, remove, sort).data
    /\ last' = [Blank EXCEPT !.op = "tags", !.arg = id, !.tags = new,
                   !.remove = remove, !.sort = sort,
                   !.before = IF SqlGet(id) = {} THEN <<>>
                              ELSE (CHOOSE r \in SqlGet(id) : TRUE).tags,
                   !.sqlRes = SqlTags(id, new, remove, sort).res,
                   !.memRes = MemTags(id, new, remove, sort).res]
    /\ UNCHANGED <<sqlGists, remote, memNextId, memObj, jsonVars, inflight>>

\* toggle_favourite(id) on the relational and the in-memory backend.
ToggleFavourite(id) ==
    /\ sqlSnippets' = SqlToggleFavourite(id).table
    /\ memData' = MemToggleFavourite(id).data
    /\ last' = [Blank EXCEPT !.op = "toggle_favourite", !.arg = id,
                   !.sqlRes = SqlToggleFavourite(id).res,
                   !.sqlRet = SqlToggleFavourite(id).ret,
                   !.memRes = MemToggleFavourite(id).res,
                   !.memRet = MemToggleFavourite(id).ret]
    /\ UNCHANGED <<sqlGists, remote, memNextId, memObj, jsonVars, inflight>>

EditIds == {1, 2}

\* The edits of a stored snippet, and the same calls for ids not stored.
NextEdit ==
    \/ \E id \in EditIds, new \in TagTuples, remove \in BOOLEAN, sort \in BOOLEAN :
           Tags(id, new, remove, sort)
    \/ \E id \in EditIds : ToggleFavourite(id)
    \/ \E id \in EditIds : Delete(id)

SpecEdit == InitEdit /\ [][NextEdit]_vars

\* The snippets added where the medium fails: the k-th add hands over the
\* k-th of them (MaxSnippet is at most their number).
FailSnippets ==
    [k \in 1..4 |->
        [id |-> 0, title |-> TitleStem \o [i \in 1..k |-> "a"], code |-> <<"a">>,
         description |-> Null, language |-> "Python", tags |-> Null,
         favorite |-> FALSE]]

FailTerms == {<<>>, <<"a">>, <<"%">>}
FailTags == {<<<<"a">>>>}

\* The steps of toggle_favourite and tags at which the medium is used.
FailSteps == {"get", "update"}

\* The answers of the medium a two-step call can meet at step `at`: the
\* update is reached only with the snippet stored.
StepFailChoices(id, at) ==
    IF at = "update" /\ SqlGet(id) = {} THEN {} ELSE LocalFailures \ {"none"}

AddF(snippet, fail) ==
    /\ SqlNextId(sqlSnippets) <= MaxSnippet
    /\ sqlSnippets' = SqlAddF(snippet, fail).table
    /\ last' = [Blank EXCEPT !.op = "add", !.localFail = fail,
                   !.sqlRes = SqlAddF(snippet, fail).res]
    /\ UNCHANGED <<sqlGists, remote, memVars, jsonVars, inflight>>

ListF(fail) ==
    /\ last' = [Blank EXCEPT !.op = "list", !.localFail = fail,
                   !.sqlRes = SqlListF(fail).res, !.sqlRet = SqlListF(fail).ret]
    /\ UNCHANGED <<sqlVars, memVars, jsonVars, inflight>>

GetF(id, fail) ==
    /\ last' = [Blank EXCEPT !.op = "get", !.arg = id, !.localFail = fail,
                   !.sqlRes = SqlGetF(id, fail).res, !.sqlRet = SqlGetF(id, fail).ret]
    /\ UNCHANGED <<sqlVars, memVars, jsonVars, inflight>>

SearchF(term, language, fail) ==
    /\ last' = [Blank EXCEPT !.op = "search", !.term = term, !.language = language,
                   !.localFail = fail,
                   !.sqlRes = SqlSearchF(term, language, fail).res,
                   !.sqlRet = SqlSearchF(term, language, fail).ret]
    /\ UNCHANGED <<sqlVars, memVars, jsonVars, inflight>>

ToggleFavouriteF(id, fail, at) ==
    /\ sqlSnippets' = SqlToggleFavouriteF(id, fail, at).table
    /\ last' = [Blank EXCEPT !.op = "toggle_favourite", !.arg = id,
                   !.localFail = fail,
                   !.sqlRes = SqlToggleFavouriteF(id, fail, at).res,
                   !.sqlRet = SqlToggleFavouriteF(id, fail, at).ret]
    /\ UNCHANGED <<sqlGists, remote, memVars, jsonVars, inflight>>

TagsF(id, new, remove, sort, fail, at) ==
    /\ sqlSnippets' = SqlTagsF(id, new, remove, sort, fail, at).table
    /\ last' = [Blank EXCEPT !.op = "tags", !.arg = id, !.tags = new,
                   !.remove = remove, !.sort = sort, !.localFail = fail,
                   !.sqlRes = SqlTagsF(id, new, remove, sort, fail, at).res]
    /\ UNCHANGED <<sqlGists, remote, memVars, jsonVars, inflight>>

\* The relational backend on a medium that can fail at every call.
NextFail ==
    \/ /\ SqlNextId(sqlSnippets) <= Len(FailSnippets)
       /\ \E fail \in LocalFailures : AddF(FailSnippets[SqlNextId(sqlSnippets)], fail)
    \/ \E fail \in LocalFailures : ListF(fail)
    \/ \E id \in GistIds, fail \in LocalFailures : GetF(id, fail)
    \/ \E id \in GistIds : \E fail \in SqlDeleteFailChoices(id) : DeleteSql(id, fail)
    \/ \E term \in FailTerms, language \in SearchLanguages, fail \in LocalFailures :
           SearchF(term, language, fail)
    \/ \E id \in GistIds :
           \/ ToggleFavouriteF(id, "none", "get")
           \/ \E at \in FailSteps : \E fail \in StepFailChoices(id, at) :
                  ToggleFavouriteF(id, fail, at)
    \/ \E id \in GistIds, new \in FailTags, remove \in BOOLEAN, sort \in BOOLEAN :
           \/ TagsF(id, new, remove, sort, "none", "get")
           \/ \E at \in FailSteps : \E fail \in StepFailChoices(id, at) :
                  TagsF(id, new, remove, sort, fail, at)

SpecFail == Init /\ [][NextFail]_vars

\* ------------------------------------ relational backend: calls in progress
\* Two callers use one repository at the same time.  Every call of the
\* DatabaseManager opens a Session of its own (`with Session(self.engine)`)
\* and every httpx call is a request of its own, so a call of the
\* repository is a sequence of steps, and the steps of two calls interleave.
\* The medium and the remote service answer without failure here.
ConcIds == {1}
ConcTags == {<<<<"a">>>>, <<<<"b">>>>}

\* What the probe answers when it does not fail.
TrueProbeChoices(s) ==
    IF SqlGet(s) = {} \/ GistRowAt(s) = {} THEN {"none"}
    ELSE IF RemoteExists(GistIdAt(s)) THEN {"200"} ELSE {"404"}

\* toggle_favourite, first step: self.get(snippet_id) in its own session; the
\* flag is negated on the object that was read.
ToggleRead(c, id) ==
    /\ inflight[c].pc = "idle"
    /\ IF SqlGet(id) = {}
       THEN /\ inflight' = inflight
            /\ last' = [Blank EXCEPT !.op = "toggle_favourite", !.arg = id,
                           !.sqlRes = "SnippetNotFoundError"]
       ELSE LET favorite == (CHOOSE r \in SqlGet(id) : TRUE).favorite
            IN /\ inflight' = [inflight EXCEPT ![c] =
                                  [Idle EXCEPT !.pc = "toggle_update", !.arg = id,
                                      !.seenFavorite = favorite,
                                      !.favorite = ~favorite]]
               /\ last' = last
    /\ UNCHANGED <<sqlVars, memVars, jsonVars>>

\* toggle_favourite, second step: db_manager.update(Snippet, id, "favorite",
\* snippet.favorite) in its own session, then the return of the value.
ToggleWrite(c) ==
    LET out == SqlUpdate(sqlSnippets, inflight[c].arg, "favorite", inflight[c].favorite)
    IN /\ inflight[c].pc = "toggle_update"
       /\ sqlSnippets' = out.table
       /\ inflight' = [inflight EXCEPT ![c] = Idle]
       /\ last' = [Blank EXCEPT !.op = "toggle_favourite", !.arg = inflight[c].arg,
                      !.sqlRes = out.res, !.sqlRet = {inflight[c].favorite}]
       /\ UNCHANGED <<sqlGists, remote, memVars, jsonVars>>

\* tags, first step: self.get(snippet_id) in its own session; process_tags
\* merges into the tag string that was read.
TagsRead(c, id, new, remove, sort) ==
    /\ inflight[c].pc = "idle"
    /\ IF SqlGet(id) = {}
       THEN /\ inflight' = inflight
            /\ last' = [Blank EXCEPT !.op = "tags", !.arg = id, !.tags = new,
                           !.remove = remove, !.sort = sort,
                           !.sqlRes = "SnippetNotFoundError"]
       ELSE LET tags == (CHOOSE r \in SqlGet(id) : TRUE).tags
            IN /\ inflight' = [inflight EXCEPT ![c] =
                                  [Idle EXCEPT !.pc = "tags_update", !.arg = id,
                                      !.tags = new, !.seenTags = tags,
                                      !.value = ProcessTags(tags, new, remove, sort)]]
               /\ last' = last
    /\ UNCHANGED <<sqlVars, memVars, jsonVars>>

\* tags, second step: db_manager.update(Snippet, pk=id, col="tags",
\* value=snippet.tags) in its own session.
TagsWrite(c) ==
    LET out == SqlUpdate(sqlSnippets, inflight[c].arg, "tags", inflight[c].value)
    IN /\ inflight[c].pc = "tags_update"
       /\ sqlSnippets' = out.table
       /\ inflight' = [inflight EXCEPT ![c] = Idle]
       /\ last' = [Blank EXCEPT !.op = "tags", !.arg = inflight[c].arg,
                      !.tags = inflight[c].tags, !.before = inflight[c].seenTags,
                      !.sqlRes = out.res]
       /\ UNCHANGED <<sqlGists, remote, memVars, jsonVars>>

\* create_gist, first step: the existence check gist = self.get_gist(id).
CreateCheck(c, s, answer) ==
    LET g == GetGist(s, answer)
    IN /\ inflight[c].pc = "idle"
       /\ sqlGists' = g.gists
       /\ IF g.ret # {}
          THEN /\ inflight' = inflight
               /\ last' = [Blank EXCEPT !.op = "create_gist", !.arg = s,
                              !.sqlRes = "DuplicateGistError", !.probe = g.probe]
          ELSE /\ inflight' = [inflight EXCEPT ![c] =
                                  [Idle EXCEPT !.pc = "create_post", !.arg = s]]
               /\ last' = last
       /\ UNCHANGED <<sqlSnippets, remote, memVars, jsonVars>>

\* create_gist, second step: httpx.post and raise_for_status.
CreatePost(c, post) ==
    /\ inflight[c].pc = "create_post"
    /\ FreshRemoteIds # {}
    /\ IF PostFails(post)
       THEN /\ remote' = remote
            /\ inflight' = [inflight EXCEPT ![c] = Idle]
            /\ last' = [Blank EXCEPT !.op = "create_gist", !.arg = inflight[c].arg,
                           !.sqlRes = "RepositoryError", !.post = post]
       ELSE /\ remote' = remote \cup {NewRemoteId}
            /\ inflight' = [inflight EXCEPT ![c].pc = "create_persist",
                                            ![c].gid = NewRemoteId]
            /\ last' = last
    /\ UNCHANGED <<sqlSnippets, sqlGists, memVars, jsonVars>>

\* create_gist, third step: self.add_gist(snippet_id, gist_url, is_public).
CreatePersist(c) ==
    LET out == AddGist(sqlGists, inflight[c].arg, inflight[c].gid, "none")
    IN /\ inflight[c].pc = "create_persist"
       /\ SqlNextId(sqlGists) <= MaxGistId
       /\ sqlGists' = out.gists
       /\ inflight' = [inflight EXCEPT ![c] = Idle]
       /\ last' = [Blank EXCEPT !.op = "create_gist", !.arg = inflight[c].arg,
                      !.sqlRes = out.res, !.post = "201",
                      !.wrote = (out.gists \ sqlGists # {})]
       /\ UNCHANGED <<sqlSnippets, remote, memVars, jsonVars>>

\* The calls of the two callers on the stored snippet, step by step.
NextConc ==
    \/ \E c \in Callers, id \in ConcIds : ToggleRead(c, id)
    \/ \E c \in Callers : ToggleWrite(c)
    \/ \E c \in Callers, id \in ConcIds, new \in ConcTags :
           TagsRead(c, id, new, FALSE, FALSE)
    \/ \E c \in Callers : TagsWrite(c)
    \/ \E c \in Callers, s \in ConcIds :
           \E answer \in TrueProbeChoices(s) : CreateCheck(c, s, answer)
    \/ \E c \in Callers, post \in PostStatuses : CreatePost(c, post)
    \/ \E c \in Callers : CreatePersist(c)

SpecConc == InitEdit /\ [][NextConc]_vars

\* ------------------------------------------ in-memory backend: one object
\* The snippet objects the callers construct for the in-memory backend.
FreshSnippet == Stored(0, Null)

AliasTags == {<<<<"a">>>>}

\* add(snippet) for a newly constructed snippet object.
AddNewMem ==
    /\ memNextId <= MaxId
    /\ memData' = MemStore(memNextId, FreshSnippet).data
    /\ memObj' = MemStore(memNextId, FreshSnippet).obj
    /\ memNextId' = MemStore(memNextId, FreshSnippet).next
    /\ last' = [Blank EXCEPT !.op = "add", !.memRes = "ok"]
    /\ UNCHANGED <<sqlVars, jsonVars, inflight>>

\* add(snippet) for the snippet object that was added before and is stored
\* under key k.
AddAgainMem(k) ==
    /\ k \in DOMAIN memData
    /\ memNextId <= MaxId
    /\ memData' = MemStore(memObj[k], memData[k]).data
    /\ memObj' = MemStore(memObj[k], memData[k]).obj
    /\ memNextId' = MemStore(memObj[k], memData[k]).next
    /\ last' = [Blank EXCEPT !.op = "add", !.arg = k, !.memRes = "ok"]
    /\ UNCHANGED <<sqlVars, jsonVars, inflight>>

\* toggle_favourite(id) on the in-memory backend.
ToggleMem(id) ==
    /\ memData' = MemToggleFavourite(id).data
    /\ last' = [Blank EXCEPT !.op = "toggle_favourite", !.arg = id,
                   !.memRes = MemToggleFavourite(id).res,
                   !.memRet = MemToggleFavourite(id).ret]
    /\ UNCHANGED <<sqlVars, memNextId, memObj, jsonVars, inflight>>

\* tags(id, *new, remove=remove, sort=sort) on the in-memory backend.
TagsMem(id, new, remove, sort) ==
    /\ \A k \in DOMAIN memData : Len(Coalesce(memData[k].tags)) <= MaxTagStr
    /\ memData' = MemTags(id, new, remove, sort).data
    /\ last' = [Blank EXCEPT !.op = "tags", !.arg = id, !.tags = new,
                   !.remove = remove, !.sort = sort,
                   !.memRes = MemTags(id, new, remove, sort).res]
    /\ UNCHANGED <<sqlVars, memNextId, memObj, jsonVars, inflight>>

\* The in-memory backend with snippet objects added once or more than once.
NextAlias ==
    \/ AddNewMem
    \/ \E k \in Ids : AddAgainMem(k)
    \/ \E id \in Ids : ToggleMem(id)
    \/ \E id \in Ids, new \in AliasTags, remove \in BOOLEAN :
           TagsMem(id, new, remove, TRUE)

SpecAlias == Init /\ [][NextAlias]_vars

\* ------------------------------------------------------------------ claims
\* How often the pair (t, l) is stored on each backend.
SqlCount(table, t, l) == Cardinality({r \in table : SamePair(r, t, l)})

MemCount(data, t, l) == Cardinality({k \in DOMAIN data : SamePair(data[k], t, l)})

JsonCount(data, t, l) == Cardinality({i \in 1..Len(data) : SamePair(data[i], t, l)})

AddStep == \E t \in Titles, l \in Languages : Add(t, l)

\* C1: on every backend, an add of a (title, language) pair that is already
\* stored fails with DuplicateSnippetError and the pair stays stored once.
C1_DuplicateAddRejected ==
    [][AddStep =>
        LET t == last'.title
            l == last'.language
        IN /\ SqlCount(sqlSnippets, t, l) >= 1 =>
                  /\ last'.sqlRes = "DuplicateSnippetError"
                  /\ SqlCount(sqlSnippets', t, l) = 1
           /\ MemCount(memData, t, l) >= 1 =>
                  /\ last'.memRes = "DuplicateSnippetError"
                  /\ MemCount(memData', t, l) = 1
           /\ JsonCount(jsonData, t, l) >= 1 =>
                  /\ last'.jsonRes = "DuplicateSnippetError"
                  /\ JsonCount(jsonData', t, l) = 1]_vars

\* The snippets a backend holds, as (id, title, language) under the id the
\* backend stores them by.
SqlStored == sqlSnippets

MemStored ==
    {[id |-> k, title |-> memData[k].title, language |-> memData[k].language] :
        k \in DOMAIN memData}

JsonStored == SeqRange(jsonData)

\* C2: run side by side from empty, the three backends give every add, list,
\* get and delete call the same outcome (success or error kind, returned
\* snippets by id/title/language) and hold the same snippets after it.
C2_BackendsAgree ==
    /\ last.sqlRes = last.memRes
    /\ last.memRes = last.jsonRes
    /\ last.sqlRet = last.memRet
    /\ last.memRet = last.jsonRet
    /\ SqlStored = MemStored
    /\ MemStored = JsonStored

\* C3: once create_gist(s) has succeeded for a stored snippet s, the next
\* create_gist(s), with no delete_gist(s) before it, fails with
\* DuplicateGistError and sends no remote create, whatever the remote service
\* does in between.
C3_SecondCreateRejected ==
    [][(/\ last.op = "create_gist"
        /\ last.sqlRes = "ok"
        /\ last'.op = "create_gist"
        /\ last'.arg = last.arg
        /\ SqlGet(last.arg) # {}
        /\ CreateGistStep(last.arg))
       => (last'.sqlRes = "DuplicateGistError" /\ last'.post = "none")]_vars

\* The remote create of the call recorded in r was sent and failed.
RemoteCreateFailed(r) == r.op = "create_gist" /\ r.post \notin {"none", "201"}

C5_GetGistDropsStaleRecord ==
    [][(/\ last'.op = "get_gist"
        /\ last'.probe # "200"
        /\ SqlGet(last'.arg) # {}
        /\ HadGist(last'.arg)
        /\ GistGone(last'.arg)
        /\ GetGistStep(last'.arg))
       => (last'.sqlRet = {} /\ GistsOf(sqlGists', last'.arg) = {})]_vars

\* C6: when the stored snippet s has a local gist record and the remote
\* delete answers 404, delete_gist(s) completes without error and s has no local gist
\* record afterwards.
C6_DeleteGistAfterRemote404 ==
    [][(/\ last'.op = "delete_gist"
        /\ last'.resp = "404"
        /\ last'.localFail = "none"
        /\ SqlGet(last'.arg) # {}
        /\ HadGist(last'.arg)
        /\ DeleteGistStep(last'.arg))
       => (last'.sqlRes = "ok" /\ GistsOf(sqlGists', last'.arg) = {})]_vars

\* The answers of the remote delete that are failures other than not-found.
RemoteDeleteFailures == DeleteStatuses \ {"204", "404"}

\* C7: when the remote delete fails other than by 404 (another error status,
\* or a transport error), delete_gist(s) fails and deletes nothing locally.
C7_RemoteFailureKeepsLocal ==
    (last.op = "delete_gist" /\ last.resp \in RemoteDeleteFailures)
    => (last.sqlRes \notin {"ok", "none"} /\ ~last.wrote /\ ~last.dropped)

\* A delete_gist that met status 500 and left the record of its snippet.
C7_Witness ==
    /\ last.op = "delete_gist"
    /\ last.resp = "500"
    /\ last.sqlRes = "RepositoryError"
    /\ GistRowAt(last.arg) # {}

\* The error kinds delete_gist raises for a remote-side failure.
RemoteFailureKinds == {DeleteGistRemoteError(r) : r \in RemoteDeleteFailures}

\* C8: when the remote delete succeeded or answered 404 and the local
\* deletion then fails, delete_gist raises an error kind it raises for no
\* remote-side failure.
C8_LocalFailureDistinct ==
    (/\ last.op = "delete_gist"
     /\ last.resp \in {"204", "404"}
     /\ last.localFail # "none")
    => last.sqlRes \notin RemoteFailureKinds

\* C9: after delete(id) succeeded no local gist record refers to snippet id.
C9_DeleteCascades ==
    (last.op = "delete" /\ last.sqlRes = "ok")
    => GistsOf(sqlGists, last.arg) = {}

PatternChars == {"%", "_", "\\"}

HasPatternChar(term) == \E i \in 1..Len(term) : term[i] \in PatternChars

\* term is a run of consecutive characters of text, letters compared
\* without regard to case.
Occurs(term, text) ==
    \E i \in 0..(Len(text) - Len(term)) :
        \A j \in 1..Len(term) : Lower(text[i + j]) = Lower(term[j])

OccursInSnippet(term, r) ==
    \/ Occurs(term, r.title)
    \/ Occurs(term, r.code)
    \/ r.description # Null /\ Occurs(term, r.description)

\* C10: for a search term containing "%", "_" or "\", search returns only
\* stored snippets in which the term occurs literally in title, code or
\* description, and without a language filter it returns all of them.
C10_SearchLiteral ==
    (last.op = "search" /\ HasPatternChar(last.term))
    => /\ \A r \in last.sqlRet : r \in sqlSnippets /\ OccursInSnippet(last.term, r)
       /\ last.language = ""
          => \A r \in sqlSnippets : OccursInSnippet(last.term, r) => r \in last.sqlRet

\* search("%") returned the snippet holding a "%" and not every snippet.
C10_Witness ==
    /\ last.op = "search"
    /\ last.term = <<"%">>
    /\ last.sqlRet # {}
    /\ last.sqlRet # sqlSnippets

\* The stored snippets a search for (term, language) has to return: the term
\* occurs in title, code or description, and the language, when one is
\* given, is the snippet's.
Expected(rows, term, language) ==
    {r \in rows : /\ OccursInSnippet(term, r)
                  /\ language # "" => LangLower(r.language) = LangLower(language)}

\* C11: on the relational and the in-memory backend, search(term, language)
\* raises nothing and returns exactly the stored snippets in which the term
\* occurs (title, code or description, case-insensitively) and whose language
\* is the given one; an empty collection when there is none.
C11_SearchExact ==
    last.op = "search"
    => /\ last.sqlRes = "ok"
       /\ last.sqlRet = Expected(sqlSnippets, last.term, last.language)
       /\ last.memRes = "ok"
       /\ last.memRet = Expected(Range(memData), last.term, last.language)

\* The tag string stored for snippet id on each backend.
SqlTagsOf(table, id) == (CHOOSE r \in SqlSelectById(table, id) : TRUE).tags

MemTagsOf(data, id) == data[id].tags

\* The step is the call tags(id, *T, remove=False, sort=s) repeated: the call
\* before it was the same call, and it found the snippet.
TagsRepeated ==
    /\ last.op = "tags" /\ last'.op = "tags"
    /\ ~last.remove /\ ~last'.remove
    /\ last'.arg = last.arg
    /\ last'.tags = last.tags
    /\ last'.sort = last.sort
    /\ last.sqlRes = "ok" /\ last.memRes = "ok"

\* C12: for a stored snippet, repeating tags(id, *T, remove=False) with the
\* same sort value leaves the stored tag string as the first call left it.
C12_AddTagsIdempotent ==
    [][TagsRepeated =>
          /\ SqlTagsOf(sqlSnippets', last.arg) = SqlTagsOf(sqlSnippets, last.arg)
          /\ MemTagsOf(memData', last.arg) = MemTagsOf(memData, last.arg)]_vars

\* The step is tags(id, *T, remove=True, sort=s) right after
\* tags(id, *T, remove=False, sort=s), which found the snippet.
TagsUndone ==
    /\ last.op = "tags" /\ last'.op = "tags"
    /\ ~last.remove /\ last'.remove
    /\ last'.arg = last.arg
    /\ last'.tags = last.tags
    /\ last'.sort = last.sort
    /\ last.sqlRes = "ok" /\ last.memRes = "ok"

\* Two tag strings hold the same tags: in the same order, or, where the
\* calls sorted, in any order (no tags and the empty string are the same).
SameTags(x, y, sort) ==
    IF sort THEN SortTags(ParseTags(x)) = SortTags(ParseTags(y))
    ELSE Coalesce(x) = Coalesce(y)

\* C13: for a stored snippet, tags(id, *T, remove=False) followed by
\* tags(id, *T, remove=True) leaves the tag string that was stored before the
\* two calls (up to the order of the tags when the calls sort).
C13_AddThenRemoveRestores ==
    [][TagsUndone =>
          /\ SameTags(last.before, SqlTagsOf(sqlSnippets', last.arg), last.sort)
          /\ SameTags(last.before, MemTagsOf(memData', last.arg), last.sort)]_vars

\* The favorite flag stored for snippet id on each backend.
SqlFavoriteOf(table, id) == (CHOOSE r \in SqlSelectById(table, id) : TRUE).favorite

MemFavoriteOf(data, id) == data[id].favorite

\* C14: on the relational and the in-memory backend, toggle_favourite(id) on
\* a stored snippet stores the negation of the favorite flag and returns the
\* new value of the flag.
C14_ToggleNegatesAndReturns ==
    [][(/\ last'.op = "toggle_favourite"
        /\ SqlGet(last'.arg) # {}
        /\ MemGet(last'.arg) # {})
       => LET id == last'.arg
          IN /\ last'.sqlRes = "ok"
             /\ SqlFavoriteOf(sqlSnippets', id) = ~SqlFavoriteOf(sqlSnippets, id)
             /\ last'.sqlRet = {SqlFavoriteOf(sqlSnippets', id)}
             /\ last'.memRes = "ok"
             /\ MemFavoriteOf(memData', id) = ~MemFavoriteOf(memData, id)
             /\ last'.memRet = {MemFavoriteOf(memData', id)}]_vars

\* The calls that need their snippet stored.
StrictOps == {"delete", "tags", "toggle_favourite"}

\* C15: delete(id), tags(id, ...) and toggle_favourite(id) for an id that is
\* not stored fail with SnippetNotFoundError on the relational and on the
\* in-memory backend and change no stored snippet; on the file backend
\* delete of an id that is not stored raises nothing and leaves the index and
\* the file as they are.
C15_UnknownIdRejected ==
    [][last'.op \in StrictOps =>
          LET id == last'.arg
          IN /\ SqlGet(id) = {} =>
                    (last'.sqlRes = "SnippetNotFoundError" /\ sqlSnippets' = sqlSnippets)
             /\ MemGet(id) = {} =>
                    (last'.memRes = "SnippetNotFoundError" /\ memData' = memData)
             /\ (last'.op = "delete" /\ ~JsonHas(id)) =>
                    /\ last'.jsonRes = "ok"
                    /\ jsonData' = jsonData
                    /\ jsonFile' = jsonFile]_vars

\* The calls of the relational backend that use the medium.
MediumOps == {"add", "list", "get", "delete", "search", "toggle_favourite", "tags"}

\* C16: on the relational backend, a call of add, list, get, delete, search,
\* toggle_favourite or tags that meets an OperationalError of the medium
\* fails with DatabaseConnectionError.
C16_OperationalErrorSurfaces ==
    (last.op \in MediumOps /\ last.localFail = "OperationalError")
    => last.sqlRes = "DatabaseConnectionError"

\* C17: when the lookup of the row to delete yields more than one row,
\* delete(id) and delete_gist(snippet_id) fail with
\* MultipleSnippetsFoundError and no row is deleted.
C17_MultipleRowsConflict ==
    (last.op \in {"delete", "delete_gist"} /\ last.localFail = "MultipleResultsFound")
    => (last.sqlRes = "MultipleSnippetsFoundError" /\ ~last.dropped /\ ~last.wrote)

\* A delete_gist whose remote delete succeeded and whose local lookup then
\* yielded more than one row: the record is still there.
C17_Witness ==
    /\ last.op = "delete_gist"
    /\ last.resp = "204"
    /\ last.localFail = "MultipleResultsFound"
    /\ last.sqlRes = "MultipleSnippetsFoundError"
    /\ GistRowAt(last.arg) # {}

C19_MemIdsIncrease ==
    [][/\ memNextId' >= memNextId
       /\ \A k \in DOMAIN memData : k < memNextId
       /\ \A k \in DOMAIN memData' \ DOMAIN memData : k >= memNextId /\ k < memNextId']_vars

\* An add after the delete of snippet 1: the new snippet is stored under 2
\* and key 1 stays free.
C19_Witness ==
    /\ last.op = "add"
    /\ DOMAIN memData = {2}
    /\ memNextId = 3

\* C20: in the file backend, loading the file yields the index the running
\* repository holds: the same ids in the same order with the same snippets.
C20_FileReplaysToIndex == JsonLoad(jsonFile) = jsonData

\* A delete that removed the first of two stored snippets: the file was
\* rewritten and holds the second one only.
C20_Witness ==
    /\ last.op = "delete"
    /\ last.arg = 1
    /\ Len(jsonFile) = 1
    /\ jsonFile[1].id = 2
    /\ jsonData = jsonFile

\* C21: when the probe reports the remote resource of a local gist record
\* gone (404), get_gist returns that record, which is kept in the gist table
\* and carries the status deleted_on_github.
C21_GoneGistMarked ==
    (last.op = "get_gist" /\ last.probe = "404")
    => \E r \in last.sqlRet : r \in sqlGists /\ r.status = "deleted_on_github"

\* Caller c takes the second step of a call that began at step `pc`.
Writes(c, pc) == inflight[c].pc = pc /\ inflight'[c].pc = "idle"

\* C22: a relational toggle_favourite or tags call reads and writes in one
\* transaction: when a call writes the flag or the tag string of a snippet,
\* the value stored is still the value the call read, so that no write of
\* another call falls between its read and its write.
C22_ReadAndWriteInOneTransaction ==
    [][\A c \in Callers :
          /\ Writes(c, "toggle_update") =>
                 \A r \in SqlGet(inflight[c].arg) : r.favorite = inflight[c].seenFavorite
          /\ Writes(c, "tags_update") =>
                 \A r \in SqlGet(inflight[c].arg) : r.tags = inflight[c].seenTags]_vars

\* The reference tag merge, step by step as the algorithm is laid down.
\* Step 1: the non-empty tokens of the tag string, cut at the separator.
NonEmptyTag(t) == t # <<>>

RefParse(existing) == SelectSeq(SplitTags(Coalesce(existing), <<>>), NonEmptyTag)

\* The members of seq at the places in `at`, in their order in seq.
RECURSIVE Pick(_, _, _)
Pick(seq, at, i) ==
    IF i > Len(seq) THEN <<>>
    ELSE (IF i \in at THEN <<seq[i]>> ELSE <<>>) \o Pick(seq, at, i + 1)

\* Step 2: the input tags that the list does not hold, each once, in the
\* order they are first seen, after the list.
RefAppend(list, new) ==
    list \o Pick(new,
                 {i \in 1..Len(new) : /\ ~InList(new[i], list)
                                      /\ \A j \in 1..(i - 1) : new[j] # new[i]},
                 1)

\* Step 3: every input tag takes its first occurrence out of the list, so
\* the k-th occurrence of a tag stays when the input names the tag fewer
\* than k times.
RefRemove(list, new) ==
    Pick(list,
         {i \in 1..Len(list) :
             Cardinality({j \in 1..i : list[j] = list[i]})
                 > Cardinality({k \in 1..Len(new) : new[k] = list[i]})},
         1)

\* Step 4: the list in lexicographic order: place k holds the tag that has
\* fewer than k tags before it and at least k tags not after it.
RefSort(list) ==
    [k \in 1..Len(list) |->
        CHOOSE x \in SeqRange(list) :
            /\ Cardinality({i \in 1..Len(list) : StrLess(list[i], x)}) < k
            /\ k <= Cardinality({i \in 1..Len(list) : ~StrLess(x, list[i])})]

\* Steps 1 to 5.
RefMerge(existing, new, remove, sort) ==
    LET list == RefParse(existing)
        merged == IF remove THEN RefRemove(list, new) ELSE RefAppend(list, new)
    IN JoinTags(IF sort THEN RefSort(merged) ELSE merged)

\* C23: for every stored tag string, tag tuple, remove and sort value, the
\* tag string a tags call stores is the one the reference merge gives: the
\* input tags not yet present appended once each in input order (remove
\* false), the input tags present removed (remove true), in lexicographic
\* order (sort true) or in merge order (sort false).
C23_TagMergeMatchesReference ==
    (last.op = "tags" /\ last.sqlRes = "ok" /\ last.memRes = "ok")
    => LET ref == RefMerge(last.before, last.tags, last.remove, last.sort)
       IN /\ SqlTagsOf(sqlSnippets, last.arg) = ref
          /\ MemTagsOf(memData, last.arg) = ref

\* C24: add_gist for a snippet that has a local gist record fails with
\* DuplicateGistError, and the snippet has exactly one gist record after it.
C24_SecondAddGistRejected ==
    [][(/\ last'.op = "add_gist"
        /\ last'.localFail = "none"
        /\ HadGist(last'.arg))
       => /\ last'.sqlRes = "DuplicateGistError"
          /\ Cardinality(GistsOf(sqlGists', last'.arg)) = 1]_vars

\* C25: in the file backend, over add and delete calls and re-openings of
\* the file, the id an add gives to a newly added snippet is none of the ids
\* given before and is greater than all of them.
C25_FileIdsNeverReused ==
    [][\A r \in SeqRange(jsonData') \ SeqRange(jsonData) :
           \A id \in jsonGiven : r.id > id]_vars

\* The step is a get_gist or a delete_gist call for the snippet last'.arg.
GistCallStep ==
    \/ last'.op = "get_gist" /\ GetGistStep(last'.arg)
    \/ last'.op = "delete_gist" /\ DeleteGistStep(last'.arg)

\* C26: get_gist(s) and delete_gist(s) work on the gist record owned by
\* snippet s and on no other: the gist records of the other snippets stay as
\* they are, a record get_gist returns is owned by s, get_gist returns none
\* when s has no record, and delete_gist reports not-found exactly when s
\* has no record.
C26_GistOpsKeyedBySnippet ==
    [][GistCallStep =>
          LET s == last'.arg
          IN /\ \A r \in sqlGists : r.snippet_id # s => r \in sqlGists'
             /\ \A r \in last'.sqlRet : r.snippet_id = s
             /\ (last'.op = "get_gist" /\ ~HadGist(s)) => last'.sqlRet = {}
             /\ last'.op = "delete_gist" =>
                    (last'.sqlRes = "GistNotFoundError" <=> ~HadGist(s))]_vars

\* C27: get_gist, alone or as the first step of create_gist, removes no
\* local gist record when the probe fails (transport error, or a status
\* other than 200 and 404): the record is dropped only on a 404.
C27_ProbeFailureKeepsRecord ==
    (last.op \in {"get_gist", "create_gist"} /\ last.probe = "error")
    => ~last.dropped

\* C28: for a snippet id that is not stored, create_gist fails without
\* sending the remote create: no remote gist is made.
C28_NoGistForUnknownSnippet ==
    [][(/\ last'.op = "create_gist"
        /\ SqlGet(last'.arg) = {}
        /\ CreateGistStep(last'.arg))
       => /\ last'.sqlRes \notin {"ok", "none"}
          /\ last'.post = "none"
          /\ remote' = remote]_vars

\* The step is a toggle_favourite(id) or a tags(id, ...) call on the
\* in-memory backend.
MemEditStep(id) ==
    \/ ToggleMem(id)
    \/ \E new \in AliasTags, remove \in BOOLEAN : TagsMem(id, new, remove, TRUE)

\* C29: in the in-memory backend toggle_favourite(id) and tags(id, ...)
\* leave the favorite flag and the tag string of every snippet stored under
\* another id as they were, also after the same snippet object was added
\* more than once.
C29_MemEditsOneSnippet ==
    [][\A id \in Ids :
          MemEditStep(id) =>
              \A k \in DOMAIN memData \ {id} :
                  /\ memData'[k].favorite = memData[k].favorite
                  /\ memData'[k].tags = memData[k].tags]_vars

\* C30: when the create_gist calls of two callers for the same snippet
\* interleave, at most one remote gist is created for the snippet, and once
\* the calls have ended every remote gist that was created has a local
\* record.  (Every remote gist here was created for the one stored snippet
\* and none is deleted.)
C30_ConcurrentCreateGuarded ==
    /\ Cardinality(remote) <= 1
    /\ (\A c \in Callers : inflight[c].pc = "idle")
       => \A gid \in remote : \E r \in sqlGists : r.gist_id = gid

====
